---- MODULE Spec2Model ----
(***************************************************************************)
(* Model of the Lovable -> cPanel build service.                           *)
(*                                                                         *)
(*   src/app/main.py                       the queued service: one worker  *)
(*                                         coroutine, the job table, the   *)
(*                                         build pipeline and the          *)
(*                                         /tasks endpoints                *)
(*   src/lovable-to-cpanel-service/app/    the direct service: /build and  *)
(*                                         process_lovable_zip             *)
(*                                                                         *)
(* Every coroutine of the queued service runs on one asyncio event loop.   *)
(* A coroutine gives the loop up only at an await that really suspends.    *)
(* The worker's awaits are QUEUE.get() (suspends only when the queue is    *)
(* empty), TASK_LOCK (never contended: only the worker takes it, so        *)
(* acquire() returns at once) and the pipeline's progress callback (the    *)
(* same lock).  The pipeline itself is synchronous code (zipfile,          *)
(* subprocess.check_call).  Hence the worker keeps the loop from the       *)
(* moment QUEUE.get() returns until it suspends again on an empty queue,   *)
(* and the request handlers run only while the worker is suspended.  The   *)
(* variable "suspended" records this; the worker's code is still split     *)
(* into one step per lock block / pipeline stage so that its intermediate  *)
(* states are states of the model.                                         *)
(*                                                                         *)
(* Text is modelled as a sequence of one-character strings (slugs) or of   *)
(* tokens (messages); Optional[x] is <<>> for None and <<x>> otherwise.    *)
(* Message texts are written in ASCII.                                     *)
(* The upload is attached to the Task object with setattr(); the model     *)
(* takes the pydantic behaviour under which this ad-hoc attribute is       *)
(* stored (undeclared underscore attributes are plain instance             *)
(* attributes).  The eta_seconds field of the responses is not part of     *)
(* resp.                                                                   *)
(* Wall-clock timestamps are kept as "set / not set"; the measured         *)
(* durations pushed onto DURATIONS are chosen by the environment.          *)
(***************************************************************************)
EXTENDS Integers, Sequences, FiniteSets, TLC

\* ------------------------------------------------------------------ bounds
\* Number of submissions the model follows.
MaxTasks == 2

\* ------------------------------------------------------- program constants
DEFAULT_AVG == 180
\* DURATIONS = deque(maxlen=20)
DURATIONS_MAXLEN == 20

None == <<>>
Some(x) == <<x>>

\* --------------------------------------------------------------- text
LowerDigit == {"s", "1"}
SlugExtra == {"-", "_", "/"}
Whitespace == {" "}

\* re.fullmatch(r"[a-z0-9][a-z0-9/_-]*", slug)
ValidSlug(s) ==
  /\ Len(s) > 0
  /\ s[1] \in LowerDigit
  /\ \A i \in 2..Len(s) : s[i] \in LowerDigit \cup SlugExtra

RECURSIVE LStrip(_)
LStrip(s) ==
  IF s # <<>> /\ Head(s) \in Whitespace THEN LStrip(Tail(s)) ELSE s

RECURSIVE RStrip(_)
RStrip(s) ==
  IF s # <<>> /\ s[Len(s)] \in Whitespace
  THEN RStrip(SubSeq(s, 1, Len(s) - 1))
  ELSE s

\* str.strip()
Strip(s) == RStrip(LStrip(s))

\* Slugs a client submits: empty, valid, and upper case with a trailing blank.
Slugs == { <<>>, <<"s", "/", "1">>, <<"S", " ">> }

\* Exit codes of an external command.
ExitCodes == {0, 1}

ToStr(n) == CASE n = 0 -> "0" [] n = 1 -> "1" [] n = 2 -> "2" [] OTHER -> "n"

\* --------------------------------------------------------- uploaded files
\* An uploaded archive is described by what the pipeline looks at: the
\* directories that hold a package.json outside node_modules ("projects"),
\* and whether it carries an already built directory with index.html.
ConfigNames == {"vite.config.ts", "vite.config.js", "next.config.js", "next.config.mjs"}
DistNames == <<"dist", "build", "out">>

EmptyBytes == [kind |-> "empty", projects |-> {}, prebuilt |-> FALSE]
Garbage == [kind |-> "garbage", projects |-> {}, prebuilt |-> FALSE]
Zip(projects, prebuilt) == [kind |-> "zip", projects |-> projects, prebuilt |-> prebuilt]

ProjVite ==
  [dir |-> "app", depth |-> 1, configs |-> {"vite.config.ts"},
   deps |-> {"vite", "react-router-dom"}, lock |-> TRUE, src |-> TRUE]
ProjNested ==
  [dir |-> "app/old", depth |-> 2, configs |-> {},
   deps |-> {"react-scripts"}, lock |-> FALSE, src |-> FALSE]
ProjNext ==
  [dir |-> "web", depth |-> 1, configs |-> {},
   deps |-> {"next"}, lock |-> FALSE, src |-> TRUE]

Files ==
  { [filename |-> "empty.zip", data |-> EmptyBytes],
    [filename |-> "notes.txt", data |-> Garbage],
    [filename |-> "vite.zip", data |-> Zip({ProjVite, ProjNested}, FALSE)],
    [filename |-> "next.zip", data |-> Zip({ProjNext}, FALSE)],
    [filename |-> "site.zip", data |-> Zip({}, TRUE)] }

\* `not data` for bytes
IsEmpty(data) == data.kind = "empty"

\* ------------------------------------------------------------ exceptions
\* An exception is its type, its str() (a sequence of tokens) and, for
\* CalledProcessError, the attributes cmd and returncode.
Exc(type, text) == [type |-> type, text |-> text, cmd |-> "", returncode |-> 0]

RuntimeErr == Exc("RuntimeError", <<"Arquivo ausente.">>)
BadZipFile == Exc("BadZipFile", <<"File is not a zip file">>)
NoPackageJson == Exc("FileNotFoundError", <<"Nao encontrei package.json no ZIP.">>)
NoSuchDir(dir) ==
  Exc("FileNotFoundError", <<"[Errno 2] No such file or directory: '", dir, "/.htaccess'">>)
\* subprocess.CalledProcessError.__str__
CalledProcessError(cmd, rc) ==
  [ Exc("CalledProcessError",
        <<"Command '", cmd, "' returned non-zero exit status ", ToStr(rc), ".">>)
    EXCEPT !.cmd = cmd, !.returncode = rc ]

\* ------------------------------------------------------ pipeline functions
\* zipfile.ZipFile(...).extractall: raises on bytes that are no zip.
Extract(data) ==
  IF data.kind = "zip" THEN [ok |-> TRUE, exc |-> None]
  ELSE [ok |-> FALSE, exc |-> Some(BadZipFile)]

score(p) == (IF p.configs \cap ConfigNames # {} THEN 10 ELSE 0) - p.depth

\* _find_project_root: the candidates of highest score.  sort() is stable, so
\* among equal scores the first in rglob's enumeration order wins: any of them.
find_project_root(data) ==
  { p \in data.projects : \A q \in data.projects : score(q) <= score(p) }

has_dep(pkg, p) == pkg \in p.deps

detect_framework(p) ==
  IF "vite.config.ts" \in p.configs \/ "vite.config.js" \in p.configs \/ has_dep("vite", p)
  THEN "vite"
  ELSE IF has_dep("next", p) \/ "next.config.js" \in p.configs
          \/ "next.config.mjs" \in p.configs
  THEN "next"
  ELSE IF has_dep("react-scripts", p) THEN "cra"
  ELSE "unknown"

Cmds == {"npm ci", "npm install", "npm run build", "npm run export"}

\* First failing command of a list under exit codes rc, or None.
RECURSIVE run_cmds(_, _)
run_cmds(cmds, rc) ==
  IF cmds = <<>> THEN None
  ELSE IF rc[Head(cmds)] # 0
       THEN Some(CalledProcessError(Head(cmds), rc[Head(cmds)]))
       ELSE run_cmds(Tail(cmds), rc)

FirstExisting(exists) ==
  IF \E i \in 1..Len(DistNames) : DistNames[i] \in exists
  THEN DistNames[CHOOSE i \in 1..Len(DistNames) :
                   /\ DistNames[i] \in exists
                   /\ \A j \in 1..(i - 1) : DistNames[j] \notin exists]
  ELSE "dist"

\* _npm_build(project_root, framework) under the environment's exit codes rc
\* and the set `exists` of output directories present after the build.
npm_build(p, fw, rc, exists) ==
  LET install ==
        IF fw = "next" THEN <<"npm install", "npm run export">>
        ELSE IF p.lock /\ rc["npm ci"] = 0 THEN <<"npm ci", "npm run build">>
        ELSE <<"npm install", "npm run build">>
      failed == run_cmds(install, rc)
  IN  IF failed # None THEN [ok |-> FALSE, exc |-> failed, dist |-> ""]
      ELSE [ok |-> TRUE, exc |-> None,
            dist |-> IF fw = "next" THEN "dist" ELSE FirstExisting(exists)]

\* _write_htaccess: the RewriteBase line of the rule file.
RewriteBase(slug) == <<"/">> \o slug \o <<"/">>

\* _zip_dir_to_bytes of the normalised output directory.
zip_dir_to_bytes(dist, slug) ==
  [kind |-> "zip", dist |-> dist, htaccess |-> RewriteBase(slug)]

\* Output directories the environment may leave under the project root.
ExistsChoices == { {}, {"dist"}, {"build", "out"} }
\* Measured durations (finished_at - t0) the environment may produce.
Elapsed == {120}

\* ------------------------------------------------------------------ state
VARIABLES
  TASKS,      \* job table: sequence of Task records, the id is the index
  PENDING,    \* deque of ids
  QUEUE,      \* asyncio.Queue of ids
  DURATIONS,  \* deque(maxlen=20) of measured durations
  wpc,        \* worker(): where the coroutine stands
  cur,        \* worker(): task_id of the running iteration (0: none)
  suspended,  \* worker() is suspended in QUEUE.get(): the loop is free
  pipe,       \* run_build_pipeline(): its locals
  patch,      \* the project tree under the Source Patcher
  resp        \* the response of the last step when it was a request handler

vars == <<TASKS, PENDING, QUEUE, DURATIONS, wpc, cur, suspended, pipe, patch, resp>>
queueVars == <<TASKS, PENDING, QUEUE, DURATIONS, wpc, cur, suspended, pipe, patch>>

Ids == 1..MaxTasks
Terminal == {"done", "error"}

\* Task(id=..., slug=..., filename=..., enqueued_at=_now()) plus the attached
\* _upload_bytes.
NewTask(slug, file) ==
  [slug |-> Strip(slug), filename |-> file.filename, status |-> "queued",
   progress |-> 0, message |-> "", result |-> None, error_detail |-> None,
   started_at |-> FALSE, finished_at |-> FALSE, upload |-> Some(file.data)]

NoPipe == [root |-> None, fw |-> "", dist |-> "", distExists |-> FALSE,
           out |-> None, exc |-> None, caught |-> FALSE]

\* A float that is a quotient of integers, kept exact: num / den, den > 0.
Rat(n, d) == [num |-> n, den |-> d]
RatLeq(a, b) == a.num * b.den <= b.num * a.den
RatMax(a, b) == IF RatLeq(b, a) THEN a ELSE b
RatSub(a, b) == Rat(a.num * b.den - b.num * a.den, a.den * b.den)
RatScale(k, a) == Rat(k * a.num, a.den)

NoResp == [op |-> "none", code |-> 0, id |-> 0, status |-> "", position |-> 0,
           progress |-> 0, message |-> "", eta |-> Rat(0, 1), body |-> None,
           detail |-> <<>>, worked |-> FALSE]

\* No tree is being patched.
NoPatch == [slug |-> <<>>, fw |-> "", tree |-> None, prev |-> None, runs |-> 0]

Init ==
  /\ TASKS = <<>>
  /\ PENDING = <<>>
  /\ QUEUE = <<>>
  /\ DURATIONS = <<>>
  /\ wpc = "get"
  /\ cur = 0
  /\ suspended = FALSE
  /\ pipe = NoPipe
  /\ patch = NoPatch
  /\ resp = NoResp

\* ------------------------------------------------------------- queue reads
Index(seq, x) == CHOOSE i \in 1..Len(seq) : seq[i] = x /\ \A j \in 1..(i - 1) : seq[j] # x

Remove(seq, x) ==
  IF \E i \in 1..Len(seq) : seq[i] = x
  THEN LET k == Index(seq, x)
       IN  SubSeq(seq, 1, k - 1) \o SubSeq(seq, k + 1, Len(seq))
  ELSE seq

any_running(tasks) == \E i \in DOMAIN tasks : tasks[i].status = "running"

\* _queue_position(task_id), list(PENDING).index counted from 0
queue_position(tasks, pending, id) ==
  IF id \notin DOMAIN tasks THEN -1
  ELSE IF tasks[id].status = "running" THEN 0
  ELSE LET idx == IF \E i \in 1..Len(pending) : pending[i] = id
                  THEN Index(pending, id) - 1
                  ELSE 0
       IN  idx + (IF any_running(tasks) THEN 1 ELSE 0)

\* deque.append on a deque of bounded length
DequeAppend(dq, x) ==
  LET a == Append(dq, x)
  IN  IF Len(a) > DURATIONS_MAXLEN THEN Tail(a) ELSE a

Min(a, b) == IF a < b THEN a ELSE b
Max(a, b) == IF a > b THEN a ELSE b

RECURSIVE Sum(_)
Sum(seq) == IF seq = <<>> THEN 0 ELSE Head(seq) + Sum(Tail(seq))

\* Mutant: the estimate is the newest duration instead of the mean.
avg_duration_last(durations) ==
  IF durations # <<>> THEN Rat(durations[Len(durations)], 1) ELSE Rat(DEFAULT_AVG, 1)

\* _avg_duration()
avg_duration(durations) ==
  IF durations # <<>> THEN Rat(Sum(durations), Len(durations)) ELSE Rat(DEFAULT_AVG, 1)

ETA_FLOOR == 5

\* _eta_for(task_id); elapsed is _now() - task.started_at.  progress is a
\* whole number here, so pct <= 0.1 is pct = 0.
eta_for(tasks, pending, durations, id, elapsed) ==
  IF id \notin DOMAIN tasks THEN Rat(0, 1)
  ELSE LET task == tasks[id]
           avg == avg_duration(durations)
       IN  IF task.status = "running" /\ task.started_at
           THEN LET pct == Max(0, Min(99, task.progress))
                IN  IF pct = 0
                    THEN RatMax(Rat(ETA_FLOOR, 1), RatSub(avg, Rat(elapsed, 1)))
                    ELSE RatMax(Rat(1, 1), RatSub(Rat(elapsed * 100, pct), Rat(elapsed, 1)))
           ELSE IF task.status = "queued"
           THEN RatMax(Rat(ETA_FLOOR, 1),
                       RatScale(queue_position(tasks, pending, id), avg))
           ELSE Rat(0, 1)

\* ----------------------------------------------------------------- worker
\* Mutant: the queue hands out the newest item.
queue_get_lifo(q) == [item |-> q[Len(q)], rest |-> SubSeq(q, 1, Len(q) - 1)]

\* QUEUE.get() on a non-empty queue: the oldest item.
queue_get(q) == [item |-> Head(q), rest |-> Tail(q)]

\* worker(), first lock block: the task starts to run.
StartTask(t) ==
  [t EXCEPT !.status = "running", !.started_at = TRUE, !.progress = 0,
            !.message = "Iniciando..."]

\* set_progress(p, msg)
set_progress(t, p, msg) ==
  [t EXCEPT !.progress = Max(0, Min(100, p)),
            !.message = IF msg # "" THEN msg ELSE t.message]

\* Mutant: the normalisation checkpoint is written 58 instead of 85.
CheckpointTypo(stage) ==
  CASE stage = "extract" -> 5
    [] stage = "locate" -> 15
    [] stage = "detect" -> 20
    [] stage = "patch" -> 35
    [] stage = "build" -> 65
    [] stage = "normalize" -> 58
    [] stage = "archive" -> 95
    [] stage = "return" -> 100

\* The checkpoint each stage of run_build_pipeline reports.
Checkpoint(stage) ==
  CASE stage = "extract" -> 5
    [] stage = "locate" -> 15
    [] stage = "detect" -> 20
    [] stage = "patch" -> 35
    [] stage = "build" -> 65
    [] stage = "normalize" -> 85
    [] stage = "archive" -> 95
    [] stage = "return" -> 100

\* Mutant: the success block also clears the error detail to "".
DoneTaskWithDetail(t, zip_bytes) ==
  [t EXCEPT !.result = Some(zip_bytes), !.progress = 100, !.message = "Concluido",
            !.status = "done", !.finished_at = TRUE, !.error_detail = Some(<<>>)]

\* worker(), success block.
DoneTask(t, zip_bytes) ==
  [t EXCEPT !.result = Some(zip_bytes), !.progress = 100, !.message = "Concluido",
            !.status = "done", !.finished_at = TRUE]

\* Mutant: the except block forgets to leave the running state.
FailTaskKeepsRunning(t, e) ==
  [t EXCEPT !.error_detail = Some(e.text),
            !.finished_at = TRUE, !.message = "Erro no processamento"]

\* Mutant: the except block puts the task back to queued for a retry.
FailTaskRequeue(t, e) ==
  [t EXCEPT !.status = "queued", !.error_detail = Some(e.text),
            !.finished_at = TRUE, !.message = "Erro no processamento"]

\* Mutant: the except block stores no detail.
FailTaskNoDetail(t, e) ==
  [t EXCEPT !.status = "error",
            !.finished_at = TRUE, !.message = "Erro no processamento"]

\* worker(), except block: str(e) becomes the error detail.
FailTask(t, e) ==
  [t EXCEPT !.status = "error", !.error_detail = Some(e.text),
            !.finished_at = TRUE, !.message = "Erro no processamento"]

\* Mutant: the handler is written `except RuntimeError`.
CatchesRuntimeErrorOnly(e) == e.type = "RuntimeError"

\* `except Exception` catches every exception the pipeline raises.
Catches(e) == TRUE

\* Mutant: the finally block leaves the upload attached.
KeepUpload(t) == t

\* worker(), finally block: delattr(task, "_upload_bytes")
FreeUpload(t) == [t EXCEPT !.upload = None]

Raise(e) ==
  /\ pipe' = [pipe EXCEPT !.exc = Some(e)]
  /\ wpc' = "except"

\* The worker finds the queue empty and suspends in QUEUE.get().
WorkerWait ==
  /\ wpc = "get" /\ ~suspended /\ QUEUE = <<>>
  /\ suspended' = TRUE
  /\ resp' = NoResp
  /\ UNCHANGED patch
  /\ UNCHANGED <<TASKS, PENDING, QUEUE, DURATIONS, wpc, cur, pipe>>

\* QUEUE.get() returns; the task is looked up and marked running.
WorkerDequeue ==
  /\ wpc = "get" /\ QUEUE # <<>>
  /\ LET g == queue_get(QUEUE)
     IN  /\ QUEUE' = g.rest
         /\ IF g.item \in DOMAIN TASKS
            THEN /\ TASKS' = [TASKS EXCEPT ![g.item] = StartTask(@)]
                 /\ cur' = g.item
                 /\ wpc' = "extract"
            ELSE UNCHANGED <<TASKS, cur, wpc>>
  /\ suspended' = FALSE
  /\ pipe' = NoPipe
  /\ resp' = NoResp
  /\ UNCHANGED patch
  /\ UNCHANGED <<PENDING, DURATIONS>>

Progress(stage, msg) ==
  TASKS' = [TASKS EXCEPT ![cur] = set_progress(@, Checkpoint(stage), msg)]

\* The upload is fetched; run_build_pipeline step 1 unpacks it.
PipelineExtract ==
  /\ wpc = "extract"
  /\ resp' = NoResp
  /\ UNCHANGED patch
  /\ UNCHANGED <<PENDING, QUEUE, DURATIONS, cur, suspended>>
  /\ IF TASKS[cur].upload = None \/ IsEmpty(TASKS[cur].upload[1])
     THEN /\ Raise(RuntimeErr)
          /\ UNCHANGED TASKS
     ELSE /\ Progress("extract", "Descompactando ZIP...")
          /\ LET x == Extract(TASKS[cur].upload[1])
             IN  IF x.ok
                 THEN /\ wpc' = "locate"
                      /\ UNCHANGED pipe
                 ELSE Raise(x.exc[1])

\* Step 2: _find_project_root.
PipelineLocate ==
  /\ wpc = "locate"
  /\ resp' = NoResp
  /\ UNCHANGED patch
  /\ UNCHANGED <<PENDING, QUEUE, DURATIONS, cur, suspended>>
  /\ Progress("locate", "Localizando projeto...")
  /\ LET roots == find_project_root(TASKS[cur].upload[1])
     IN  IF roots = {}
         THEN Raise(NoPackageJson)
         ELSE \E r \in roots :
                /\ pipe' = [pipe EXCEPT !.root = Some(r)]
                /\ wpc' = "detect"

\* Step 3: _detect_framework.
PipelineDetect ==
  /\ wpc = "detect"
  /\ resp' = NoResp
  /\ UNCHANGED patch
  /\ UNCHANGED <<PENDING, QUEUE, DURATIONS, cur, suspended>>
  /\ Progress("detect", "Detectando framework...")
  /\ pipe' = [pipe EXCEPT !.fw = detect_framework(pipe.root[1])]
  /\ wpc' = "patch"

\* Step 4: the framework's config patch and the router patch rewrite files
\* of the temporary tree only; the rewriting is SourcePatcher, applied to
\* trees with file contents by ApplyPatcher.
PipelinePatch ==
  /\ wpc = "patch"
  /\ resp' = NoResp
  /\ UNCHANGED patch
  /\ UNCHANGED <<PENDING, QUEUE, DURATIONS, cur, suspended, pipe>>
  /\ Progress("patch", "Aplicando ajustes...")
  /\ wpc' = "build"

\* Step 5: _npm_build under the environment's exit codes.
PipelineBuild ==
  /\ wpc = "build"
  /\ resp' = NoResp
  /\ UNCHANGED patch
  /\ UNCHANGED <<PENDING, QUEUE, DURATIONS, cur, suspended>>
  /\ Progress("build", "Instalando dependencias e build... (pode demorar)")
  /\ \E rc \in [Cmds -> ExitCodes], exists \in ExistsChoices :
       LET b == npm_build(pipe.root[1], pipe.fw, rc, exists)
       IN  IF b.ok
           THEN /\ pipe' = [pipe EXCEPT !.dist = b.dist,
                                        !.distExists = (b.dist \in exists)]
                /\ wpc' = "normalize"
           ELSE Raise(b.exc[1])

\* Step 6: URL fixes and _write_htaccess, which needs the directory.
PipelineNormalize ==
  /\ wpc = "normalize"
  /\ resp' = NoResp
  /\ UNCHANGED patch
  /\ UNCHANGED <<PENDING, QUEUE, DURATIONS, cur, suspended>>
  /\ Progress("normalize", "Ajustes finais...")
  /\ IF pipe.distExists
     THEN /\ wpc' = "archive"
          /\ UNCHANGED pipe
     ELSE Raise(NoSuchDir(pipe.dist))

\* Step 7: _zip_dir_to_bytes.
PipelineArchive ==
  /\ wpc = "archive"
  /\ resp' = NoResp
  /\ UNCHANGED patch
  /\ UNCHANGED <<PENDING, QUEUE, DURATIONS, cur, suspended>>
  /\ Progress("archive", "Compactando...")
  /\ pipe' = [pipe EXCEPT !.out = Some(zip_dir_to_bytes(pipe.dist, TASKS[cur].slug))]
  /\ wpc' = "return"

\* progress(100) and return out_bytes.
PipelineReturn ==
  /\ wpc = "return"
  /\ resp' = NoResp
  /\ UNCHANGED patch
  /\ UNCHANGED <<PENDING, QUEUE, DURATIONS, cur, suspended, pipe>>
  /\ Progress("return", "Concluido")
  /\ wpc' = "success"

\* worker(), lock block after the pipeline returned.
WorkerSuccess ==
  /\ wpc = "success"
  /\ TASKS' = [TASKS EXCEPT ![cur] = DoneTask(@, pipe.out[1])]
  /\ \E d \in Elapsed : DURATIONS' = DequeAppend(DURATIONS, d)
  /\ wpc' = "finally"
  /\ resp' = NoResp
  /\ UNCHANGED patch
  /\ UNCHANGED <<PENDING, QUEUE, cur, suspended, pipe>>

\* worker(), except block; an exception it does not catch ends the coroutine
\* after the finally block.
WorkerExcept ==
  /\ wpc = "except"
  /\ IF Catches(pipe.exc[1])
     THEN /\ TASKS' = [TASKS EXCEPT ![cur] = FailTask(@, pipe.exc[1])]
          /\ \E d \in Elapsed : DURATIONS' = DequeAppend(DURATIONS, d)
          /\ pipe' = [pipe EXCEPT !.caught = TRUE]
     ELSE UNCHANGED <<TASKS, DURATIONS, pipe>>
  /\ wpc' = "finally"
  /\ resp' = NoResp
  /\ UNCHANGED patch
  /\ UNCHANGED <<PENDING, QUEUE, cur, suspended>>

\* worker(), finally block; then the loop goes back to QUEUE.get().
WorkerFinally ==
  /\ wpc = "finally"
  /\ TASKS' = [TASKS EXCEPT ![cur] = FreeUpload(@)]
  /\ PENDING' = Remove(PENDING, cur)
  /\ wpc' = IF pipe.exc = None \/ pipe.caught THEN "get" ELSE "dead"
  /\ cur' = 0
  /\ pipe' = NoPipe
  /\ resp' = NoResp
  /\ UNCHANGED patch
  /\ UNCHANGED <<QUEUE, DURATIONS, suspended>>

Pipeline ==
  \/ PipelineExtract
  \/ PipelineLocate
  \/ PipelineDetect
  \/ PipelinePatch
  \/ PipelineBuild
  \/ PipelineNormalize
  \/ PipelineArchive
  \/ PipelineReturn

worker ==
  \/ WorkerWait
  \/ WorkerDequeue
  \/ Pipeline
  \/ WorkerSuccess
  \/ WorkerExcept
  \/ WorkerFinally

\* ------------------------------------------------- handlers of /tasks
\* A handler runs when the worker does not hold the event loop.
LoopFree == suspended \/ wpc = "dead"

HttpError(op, code, id, detail) ==
  [NoResp EXCEPT !.op = op, !.code = code, !.id = id, !.detail = detail]

\* EnqueueResponse of a task just added
EnqueueResponse(tasks, pending, durations, id, elapsed) ==
  [NoResp EXCEPT !.op = "enqueue", !.code = 200, !.id = id,
                 !.status = tasks[id].status,
                 !.position = queue_position(tasks, pending, id),
                 !.eta = eta_for(tasks, pending, durations, id, elapsed)]

\* POST /tasks
enqueue(slug, file) ==
  /\ LoopFree
  /\ IF slug = <<>>
     THEN /\ resp' = HttpError("enqueue", 400, 0, <<"slug e file sao obrigatorios">>)
          /\ UNCHANGED queueVars
     ELSE IF IsEmpty(file.data)
     THEN /\ resp' = HttpError("enqueue", 400, 0, <<"Arquivo vazio">>)
          /\ UNCHANGED queueVars
     ELSE /\ Len(TASKS) < MaxTasks
          /\ LET task_id == Len(TASKS) + 1
             IN  /\ TASKS' = Append(TASKS, NewTask(slug, file))
                 /\ PENDING' = Append(PENDING, task_id)
                 /\ QUEUE' = Append(QUEUE, task_id)
                 /\ \E el \in Elapsed :
                      resp' = EnqueueResponse(TASKS', PENDING', DURATIONS, task_id, el)
          /\ UNCHANGED <<DURATIONS, wpc, cur, suspended, pipe, patch>>

\* StatusResponse of GET /tasks/{task_id}/status
StatusResponse(tasks, pending, durations, id, elapsed) ==
  IF id \notin DOMAIN tasks
  THEN HttpError("status", 404, id, <<"Task nao encontrada">>)
  ELSE [NoResp EXCEPT !.op = "status", !.code = 200, !.id = id,
                      !.status = tasks[id].status,
                      !.position = queue_position(tasks, pending, id),
                      !.progress = IF tasks[id].status = "running"
                                   THEN tasks[id].progress ELSE 0,
                      !.message = tasks[id].message,
                      !.eta = eta_for(tasks, pending, durations, id, elapsed)]

task_status(id) ==
  /\ LoopFree
  /\ \E el \in Elapsed : resp' = StatusResponse(TASKS, PENDING, DURATIONS, id, el)
  /\ UNCHANGED queueVars

\* The response of GET /tasks/{task_id}/download
DownloadResponse(tasks, id) ==
  IF id \notin DOMAIN tasks
  THEN HttpError("download", 404, id, <<"Task nao encontrada">>)
  ELSE IF tasks[id].status = "error"
  THEN HttpError("download", 500, id,
                 IF tasks[id].error_detail # None /\ tasks[id].error_detail[1] # <<>>
                 THEN tasks[id].error_detail[1] ELSE <<"Erro">>)
  ELSE IF tasks[id].status # "done" \/ tasks[id].result = None
  THEN HttpError("download", 409, id, <<"Ainda nao concluido">>)
  ELSE [NoResp EXCEPT !.op = "download", !.code = 200, !.id = id,
                      !.body = tasks[id].result]

task_download(id) ==
  /\ LoopFree
  /\ resp' = DownloadResponse(TASKS, id)
  /\ UNCHANGED queueVars

\* ------------------------------------------ the direct service: POST /build
ValueErr == Exc("ValueError", <<"Slug invalida. Use apenas letras/numeros, -, _ e /.">>)
NoPackageJson2 == Exc("FileNotFoundError", <<"package.json nao encontrado no ZIP.">>)

\* process_lovable_zip(zip_bytes, slug) with the root r picked among the best
\* candidates and the environment's rc / exists; `worked` tells whether the
\* temporary directory was created, that is, whether any work began.
process_lovable_zip(zip_bytes, slug, r, rc, exists) ==
  LET fail(e, w) == [ok |-> FALSE, exc |-> Some(e), out |-> None, worked |-> w]
  IN  IF ~ValidSlug(slug) THEN fail(ValueErr, FALSE)
      ELSE IF ~Extract(zip_bytes).ok THEN fail(BadZipFile, TRUE)
      ELSE IF find_project_root(zip_bytes) = {} THEN fail(NoPackageJson2, TRUE)
      ELSE LET fw == detect_framework(r)
               b == npm_build(r, fw, rc, exists)
           IN  IF ~b.ok THEN fail(b.exc[1], TRUE)
               ELSE IF b.dist \notin exists THEN fail(NoSuchDir(b.dist), TRUE)
               ELSE [ok |-> TRUE, exc |-> None,
                     out |-> Some(zip_dir_to_bytes(b.dist, slug)), worked |-> TRUE]

IsZipName(filename) == filename \in {"empty.zip", "vite.zip", "next.zip", "site.zip"}

\* The response of POST /build
BuildResponse(slug, file, r, rc, exists) ==
  IF ~ValidSlug(slug)
  THEN HttpError("build", 400, 0, <<"Slug invalida.">>)
  ELSE IF ~IsZipName(file.filename)
  THEN HttpError("build", 400, 0, <<"Envie um .zip do Lovable.">>)
  ELSE LET p == process_lovable_zip(file.data, slug, r, rc, exists)
       IN  IF p.ok
           THEN [NoResp EXCEPT !.op = "build", !.code = 200, !.body = p.out,
                               !.worked = p.worked]
           ELSE [HttpError("build", 400, 0, <<"Falha no processamento: ">> \o p.exc[1].text)
                   EXCEPT !.worked = p.worked]

build(slug, file) ==
  /\ LET roots == find_project_root(file.data)
     IN  \E r \in (IF roots = {} THEN {ProjNested} ELSE roots),
            rc \in [Cmds -> ExitCodes], exists \in ExistsChoices :
           resp' = BuildResponse(slug, file, r, rc, exists)
  /\ UNCHANGED queueVars

\* ------------------------------------------------------------ specification
Next ==
  \/ worker
  \/ \E slug \in Slugs, file \in Files : enqueue(slug, file)
  \/ \E id \in Ids : task_status(id)
  \/ \E id \in Ids : task_download(id)

Spec == Init /\ [][Next]_vars

\* The direct service is another process and shares nothing with the queue.
BuildNext == \E slug \in Slugs, file \in Files : build(slug, file)

BuildSpec == Init /\ [][BuildNext]_vars

\* Submissions and the worker alone (the read-only handlers change nothing the
\* worker reads).  The event loop runs a runnable worker coroutine, and every
\* pipeline stage terminates: weak fairness of the worker's steps.
FairNext ==
  \/ worker
  \/ \E slug \in Slugs, file \in Files : enqueue(slug, file)

FairSpec == Init /\ [][FairNext]_vars /\ WF_vars(worker)

\* ================================================================= claims

Running == { i \in DOMAIN TASKS : TASKS[i].status = "running" }

\* C1: in every reachable state at most one job has state running.
C1_SingleSlot == Cardinality(Running) <= 1

\* C1 witness: a job is running while another one waits in the queue.
C1_Witness ==
  \E i, j \in DOMAIN TASKS :
    i # j /\ TASKS[i].status = "running" /\ TASKS[j].status = "queued"

\* C2: ids are handed out in the order the enqueues complete; a job that has
\* left queued (it is or was running) finds every job enqueued before it
\* already in done or error.
C2_Fifo ==
  \A i, j \in DOMAIN TASKS :
    (i < j /\ TASKS[j].status # "queued") => TASKS[i].status \in Terminal

\* C2 witness: the job submitted first is finished and the one submitted
\* second runs.
C2_Witness ==
  /\ Len(TASKS) >= 2
  /\ TASKS[1].status \in Terminal
  /\ TASKS[2].status = "running"

Transitions == { <<"queued", "running">>, <<"running", "done">>, <<"running", "error">> }

\* C3: a job is created in queued; its state changes only along
\* queued->running, running->done, running->error; no job disappears.
C3_Lifecycle ==
  [][ /\ \A i \in DOMAIN TASKS :
           /\ i \in DOMAIN TASKS'
           /\ TASKS'[i].status # TASKS[i].status
                => <<TASKS[i].status, TASKS'[i].status>> \in Transitions
      /\ \A i \in DOMAIN TASKS' \ DOMAIN TASKS : TASKS'[i].status = "queued" ]_vars

\* C3 witness: one job has ended in done and another one in error.
C3_Witness ==
  \E i, j \in DOMAIN TASKS : TASKS[i].status = "done" /\ TASKS[j].status = "error"

\* C4: the worker never dies; a failure moves only the failing job to error;
\* and, the worker being scheduled, every submitted job ends in done or error.
C4_WorkerSurvives ==
  /\ [](wpc # "dead")
  /\ [][ \A i \in DOMAIN TASKS :
           (TASKS[i].status # "error" /\ TASKS'[i].status = "error")
             => /\ i = cur
                /\ \A j \in DOMAIN TASKS \ {i} : TASKS'[j] = TASKS[j] ]_vars
  /\ \A i \in Ids :
       (i \in DOMAIN TASKS) ~> (i \in DOMAIN TASKS /\ TASKS[i].status \in Terminal)

\* C4 witness: after a job ended in error the worker took up the next one.
C4_Witness ==
  \E i, j \in DOMAIN TASKS :
    i < j /\ TASKS[i].status = "error" /\ TASKS[j].status \in {"running", "done", "error"}

\* C5: a result is present only in state done, an error detail only in state
\* error.
C5_ResultOnlyWhenDone ==
  \A i \in DOMAIN TASKS :
    /\ TASKS[i].result # None => TASKS[i].status = "done"
    /\ TASKS[i].error_detail # None => TASKS[i].status = "error"

\* C5 witness: a done job carrying its result next to an error job carrying
\* its detail.
C5_Witness ==
  \E i, j \in DOMAIN TASKS :
    /\ TASKS[i].status = "done" /\ TASKS[i].result # None
    /\ TASKS[j].status = "error" /\ TASKS[j].error_detail # None

Contains(text, token) == \E k \in 1..Len(text) : text[k] = token

\* The build of the running job raised CalledProcessError: an external
\* command whose failure is not retried exited non-zero.
BuildRaised ==
  /\ wpc = "finally"
  /\ pipe.exc # None
  /\ pipe.exc[1].type = "CalledProcessError"

\* The job whose build raised is in error and its detail names the command
\* and its exit status.
EndsInErrorWithExitInfo ==
  BuildRaised =>
    /\ pipe.exc[1].returncode # 0
    /\ TASKS[cur].status = "error"
    /\ TASKS[cur].error_detail # None
    /\ Contains(TASKS[cur].error_detail[1], ToStr(pipe.exc[1].returncode))
    /\ Contains(TASKS[cur].error_detail[1], pipe.exc[1].cmd)

DownloadOfErrorJob ==
  /\ resp.op = "download"
  /\ resp.id \in DOMAIN TASKS
  /\ TASKS[resp.id].status = "error"

C7_Progress ==
  /\ [](\A i \in DOMAIN TASKS : TASKS[i].progress \in 0..100)
  /\ [][ \A i \in DOMAIN TASKS : TASKS'[i].progress >= TASKS[i].progress ]_vars

\* C7 witness: one job went through every checkpoint to 100, another one
\* failed in the build stage and kept its progress.
C7_Witness ==
  \E i, j \in DOMAIN TASKS :
    /\ TASKS[i].status = "done" /\ TASKS[i].progress = 100
    /\ TASKS[j].status = "error" /\ TASKS[j].progress = 65

\* Queued jobs that stand before job i in PENDING.
WaitingAhead(i) ==
  { j \in DOMAIN TASKS :
      /\ TASKS[j].status = "queued"
      /\ \E a, b \in 1..Len(PENDING) : a < b /\ PENDING[a] = j /\ PENDING[b] = i }

\* C8: the position of the running job is 0; the position of a queued job is
\* the number of waiting jobs ahead of it, plus 1 if some job is running.
C8_QueuePosition ==
  \A i \in DOMAIN TASKS :
    /\ TASKS[i].status = "running" => queue_position(TASKS, PENDING, i) = 0
    /\ TASKS[i].status = "queued" =>
         queue_position(TASKS, PENDING, i)
           = Cardinality(WaitingAhead(i)) + (IF any_running(TASKS) THEN 1 ELSE 0)

\* C9: no job of the job table stems from a submission with a slug outside the
\* accepted character set (the stored slug is the submitted one, stripped).
C9_NoJobForInvalidSlug ==
  \A i \in DOMAIN TASKS : ValidSlug(TASKS[i].slug)

\* C10: the job of an archive without package.json but with a built directory
\* holding index.html leaves the pipeline in done, with a result.
C10_PassThrough ==
  \A i \in DOMAIN TASKS :
    ( /\ wpc = "finally" /\ cur = i
      /\ TASKS[i].upload # None
      /\ TASKS[i].upload[1].kind = "zip"
      /\ TASKS[i].upload[1].projects = {}
      /\ TASKS[i].upload[1].prebuilt )
    => (TASKS[i].status = "done" /\ TASKS[i].result # None)

\* C11: while a job is between running and its terminal state, the event loop
\* serves the request handlers: a status call and a submission are possible.
C11_HandlersServedWhileRunning ==
  any_running(TASKS) =>
    /\ ENABLED (\E id \in Ids : task_status(id))
    /\ ENABLED (\E slug \in Slugs, file \in Files : enqueue(slug, file))

\* ======================================================= the Source Patcher
\* Source text is a sequence of tokens [k, q, v]: k is the kind of the token,
\* q a quote character or a module name, v a sequence of strings.  The
\* regular expressions of the patcher are modelled by the tokens they match.
Tok(k, q, v) == [k |-> k, q |-> q, v |-> v]
Lit(s) == Tok("lit", "", <<s>>)

\* Position of the first token of a text whose kind is one of kinds, 0 if
\* there is none.
FirstPos(text, kinds) ==
  IF \E i \in 1..Len(text) : text[i].k \in kinds
  THEN CHOOSE i \in 1..Len(text) :
         text[i].k \in kinds /\ \A j \in 1..(i - 1) : text[j].k \notin kinds
  ELSE 0

InsertAfter(text, pos, toks) ==
  SubSeq(text, 1, pos) \o toks \o SubSeq(text, pos + 1, Len(text))

RECURSIVE Flatten(_)
Flatten(seqs) == IF seqs = <<>> THEN <<>> ELSE Head(seqs) \o Flatten(Tail(seqs))

\* ---- vite config: tokens "defcfg" (the text `defineConfig({`), "objcfg"
\* (`export default {`), "base" (a base assignment, q its quote, v its path)
BaseTok(q, path) == Tok("base", q, path)

\* r'base\s*:\s*["\']\/[^"\']*\/["\']': a quoted path that starts with "/"
\* and ends with another "/"
MatchesBaseRe(t) ==
  /\ t.k = "base"
  /\ t.q \in {"'", "\""}
  /\ Len(t.v) >= 2
  /\ t.v[1] = "/"
  /\ t.v[Len(t.v)] = "/"

\* r'(defineConfig\(\s*(?:\(\s*\w+\s*\)\s*=>\s*)?\{\s*)'
MatchesDefineConfigRe == {"defcfg"}

\* _ensure_vite_config.transform
vite_transform(txt, slug) ==
  LET desired == BaseTok("\"", RewriteBase(slug))
      n == Cardinality({i \in 1..Len(txt) : MatchesBaseRe(txt[i])})
      pos == FirstPos(txt, MatchesDefineConfigRe)
  IN  IF n > 0
      THEN [i \in 1..Len(txt) |-> IF MatchesBaseRe(txt[i]) THEN desired ELSE txt[i]]
      ELSE IF pos > 0 THEN InsertAfter(txt, pos, <<desired>>)
      ELSE txt

\* _ensure_vite_config: the file of the name the patcher selects (tree.cfg)
\* is synthesised when absent, transformed otherwise.
ensure_vite_config(tree, slug) ==
  IF tree.cfg = None
  THEN LET react == has_dep("@vitejs/plugin-react", tree)
           content ==
             <<Lit("import { defineConfig } from 'vite'")>>
             \o (IF react THEN <<Lit("import react from '@vitejs/plugin-react'")>> ELSE <<>>)
             \o <<Tok("defcfg", "", <<"export default defineConfig({">>)>>
             \o (IF react THEN <<Lit("plugins: [react()],")>> ELSE <<>>)
             \o <<BaseTok("'", RewriteBase(slug)), Lit("})")>>
       IN  [tree EXCEPT !.cfg = Some(content)]
  ELSE [tree EXCEPT !.cfg = Some(vite_transform(tree.cfg[1], slug))]

\* ---- next config: tokens "modexp" (`module.exports = {`), "expdef"
\* (`export default {`), "basePath" and "assetPrefix" (q quote, v value)
NextBasePath(slug) == Tok("basePath", "\"", <<"/">> \o slug)
NextAssetPrefix(slug) == Tok("assetPrefix", "\"", <<"/">> \o slug \o <<"/">>)

IsModExp == {"modexp"}
IsExpDef == {"expdef"}

\* _patch_next_config.transform
next_transform(txt, slug) ==
  IF \E i \in 1..Len(txt) : txt[i].k \in {"basePath", "assetPrefix"}
  THEN [i \in 1..Len(txt) |->
          IF txt[i].k = "basePath" THEN NextBasePath(slug)
          ELSE IF txt[i].k = "assetPrefix" THEN NextAssetPrefix(slug)
          ELSE txt[i]]
  ELSE LET inj == <<NextBasePath(slug), NextAssetPrefix(slug)>>
           p1 == FirstPos(txt, IsModExp)
           t1 == IF p1 > 0 THEN InsertAfter(txt, p1, inj) ELSE txt
           p2 == FirstPos(t1, IsExpDef)
       IN  IF p2 > 0 THEN InsertAfter(t1, p2, inj) ELSE t1

EXPORT_SCRIPT == "next build && next export -o dist"

\* scripts["export"] = "next build && next export -o dist"
WithExportScript(pkg) ==
  [pkg EXCEPT !.scripts =
     [n \in DOMAIN pkg.scripts \cup {"export"} |->
        IF n = "export" THEN EXPORT_SCRIPT ELSE pkg.scripts[n]]]

\* _patch_next_config: next.config.js, then next.config.mjs; the first file
\* whose text the transform changes also gets the export script written.
patch_next_config(tree, slug) ==
  LET js == IF tree.nextjs = None THEN None ELSE Some(next_transform(tree.nextjs[1], slug))
      mjs == IF tree.nextmjs = None THEN None ELSE Some(next_transform(tree.nextmjs[1], slug))
  IN  IF js # tree.nextjs
      THEN [tree EXCEPT !.nextjs = js, !.pkg = WithExportScript(tree.pkg)]
      ELSE IF mjs # tree.nextmjs
      THEN [tree EXCEPT !.nextmjs = mjs, !.pkg = WithExportScript(tree.pkg)]
      ELSE tree

\* _patch_cra_homepage
patch_cra_homepage(tree, slug) ==
  IF tree.pkg.homepage # Some(<<"/">> \o slug)
  THEN [tree EXCEPT !.pkg.homepage = Some(<<"/">> \o slug)]
  ELSE tree

\* ---- entry point and App component: one token per line.  "import{}" is a
\* named import (q the module, v the names), "import" any other import line,
\* "jsx" a line of markup (v its elements).
RRD == "react-router-dom"
IsImportLine == {"import{}", "import"}
IsNamedImport == {"import{}"}

\* "react-router-dom" in t / re.search(r'from\s+[\'"]react-router-dom[\'"]', t)
HasRouterImport(txt) == \E i \in 1..Len(txt) : txt[i].k \in IsImportLine /\ txt[i].q = RRD

\* word in t, for the identifiers HashRouter and BrowserRouter
Mentions(txt, word) ==
  \E i \in 1..Len(txt) :
    \E k \in 1..Len(txt[i].v) :
      txt[i].v[k] \in {word, "<" \o word \o ">", "</" \o word \o ">"}

\* str.replace(old, new) on one string of a token
ReplaceWord(s, old, new) ==
  IF s = old THEN new
  ELSE IF s = "<" \o old \o ">" THEN "<" \o new \o ">"
  ELSE IF s = "</" \o old \o ">" THEN "</" \o new \o ">"
  ELSE s

IsAppElement(s) == s \in {"<App />", "<App></App>"}

\* _ensure_hashrouter.transform
hashrouter_transform(txt) ==
  LET pNamed == FirstPos(txt, IsNamedImport)
      pLine == FirstPos(txt, IsImportLine)
      t1 == IF HasRouterImport(txt) /\ ~Mentions(txt, "HashRouter")
            THEN IF pNamed > 0
                 THEN [txt EXCEPT ![pNamed].v = <<"HashRouter">> \o @]
                 ELSE txt
            ELSE IF ~HasRouterImport(txt)
            THEN IF pLine > 0
                 THEN InsertAfter(txt, pLine, <<Tok("import{}", RRD, <<"HashRouter">>)>>)
                 ELSE txt
            ELSE txt
      Rename(t) == [t EXCEPT !.v = [k \in 1..Len(t.v) |->
                                      ReplaceWord(t.v[k], "BrowserRouter", "HashRouter")]]
      t2 == [i \in 1..Len(t1) |-> Rename(t1[i])]
      Wrap(t) == IF t.k = "jsx"
                 THEN [t EXCEPT !.v = Flatten([k \in 1..Len(t.v) |->
                         IF IsAppElement(t.v[k])
                         THEN <<"<HashRouter>", t.v[k], "</HashRouter>">>
                         ELSE <<t.v[k]>>])]
                 ELSE t
  IN  [i \in 1..Len(t2) |-> Wrap(t2[i])]

\* _ensure_hashrouter: the first existing entry file (tree.main)
ensure_hashrouter(tree) ==
  IF tree.main = None THEN tree
  ELSE [tree EXCEPT !.main = Some(hashrouter_transform(tree.main[1]))]

\* _remove_browserrouter_in_app.transform
browserrouter_transform(txt) ==
  LET DropHead(t) ==
        IF t.k = "import{}" /\ t.v # <<>> /\ Head(t.v) = "BrowserRouter"
        THEN [t EXCEPT !.v = Tail(t.v)] ELSE t
      DropLast(t) ==
        IF t.k = "import{}" /\ Len(t.v) >= 2 /\ t.v[Len(t.v)] = "BrowserRouter"
        THEN [t EXCEPT !.v = SubSeq(t.v, 1, Len(t.v) - 1)] ELSE t
      IsDefaultImport(t) == t.k = "import" /\ t.q = RRD /\ t.v = <<"BrowserRouter">>
      Tags(t) ==
        IF t.k = "jsx"
        THEN [t EXCEPT !.v = [k \in 1..Len(t.v) |->
                IF t.v[k] = "<BrowserRouter>" THEN "<>"
                ELSE IF t.v[k] = "</BrowserRouter>" THEN "</>"
                ELSE t.v[k]]]
        ELSE t
      t1 == [i \in 1..Len(txt) |-> DropLast(DropHead(txt[i]))]
      t2 == SelectSeq(t1, LAMBDA t : ~IsDefaultImport(t))
  IN  [i \in 1..Len(t2) |-> Tags(t2[i])]

\* _remove_browserrouter_in_app: the App component file (tree.app)
remove_browserrouter_in_app(tree) ==
  IF tree.app = None THEN tree
  ELSE [tree EXCEPT !.app = Some(browserrouter_transform(tree.app[1]))]

\* run_build_pipeline step 4: the framework's patch, then the router patches
\* when a source directory exists.
SourcePatcher(tree, fw, slug) ==
  LET t1 == IF fw = "vite" THEN ensure_vite_config(tree, slug)
            ELSE IF fw = "next" THEN patch_next_config(tree, slug)
            ELSE IF fw = "cra" THEN patch_cra_homepage(tree, slug)
            ELSE tree
  IN  IF t1.src THEN remove_browserrouter_in_app(ensure_hashrouter(t1)) ELSE t1

\* The base the bundler takes from a config text: in an object literal the
\* last assignment of a key wins; "/" when there is none.
BaseInEffect(txt) ==
  IF \E i \in 1..Len(txt) : txt[i].k = "base"
  THEN txt[CHOOSE i \in 1..Len(txt) :
             txt[i].k = "base" /\ \A j \in (i + 1)..Len(txt) : txt[j].k # "base"].v
  ELSE <<"/">>


\* ---- project trees the patcher is applied to
Scripts(fw) == [n \in {"build"} |-> fw \o " build"]

Tree(deps, cfg, nextjs, main, app) ==
  [deps |-> deps, cfg |-> cfg, nextjs |-> nextjs, nextmjs |-> None,
   pkg |-> [scripts |-> Scripts("npm"), homepage |-> None],
   src |-> TRUE, main |-> main, app |-> app]

DefCfg == Tok("defcfg", "", <<"export default defineConfig({">>)

ViteCfgs ==
  { None,
    Some(<<Lit("import { defineConfig } from 'vite'"), DefCfg,
           Lit("plugins: [react()],"), Lit("})")>>),
    Some(<<DefCfg, BaseTok("'", <<"/", "s", "/">>), Lit("})")>>),
    Some(<<DefCfg, Lit("plugins: [react()],"), BaseTok("\"", <<"/">>), Lit("})")>>),
    Some(<<DefCfg, BaseTok("\"", <<".", "/">>), Lit("})")>>),
    Some(<<Tok("objcfg", "", <<"export default {">>), Lit("}")>>) }

ModExp == Tok("modexp", "", <<"module.exports = {">>)

NextCfgs ==
  { None,
    Some(<<ModExp, Lit("reactStrictMode: true,"), Lit("}")>>),
    Some(<<ModExp, Tok("basePath", "'", <<"/", "o">>), Lit("}")>>),
    Some(<<ModExp, NextBasePath(<<"s">>), NextAssetPrefix(<<"s">>), Lit("}")>>),
    Some(<<Lit("const nextConfig = {"), Lit("}"), Lit("module.exports = nextConfig")>>) }

ImportReact == Tok("import", "react", <<"React">>)
ImportApp == Tok("import", "./App", <<"App">>)

Mains ==
  { None,
    Some(<<ImportReact, Tok("import{}", RRD, <<"BrowserRouter">>), ImportApp,
           Tok("jsx", "", <<"<BrowserRouter>", "<App />", "</BrowserRouter>">>)>>),
    Some(<<ImportReact, ImportApp, Tok("jsx", "", <<"<App />">>)>>),
    Some(<<ImportReact, Tok("import{}", RRD, <<"HashRouter">>), ImportApp,
           Tok("jsx", "", <<"<HashRouter>", "<Root />", "</HashRouter>">>)>>),
    Some(<<Tok("jsx", "", <<"<Root />">>)>>) }

Apps ==
  { None,
    Some(<<Tok("import{}", RRD, <<"BrowserRouter", "Routes">>),
           Tok("jsx", "", <<"<BrowserRouter>", "<Routes />", "</BrowserRouter>">>)>>) }

Trees ==
  { Tree({"vite", "@vitejs/plugin-react"}, c, None, m, a) :
      c \in ViteCfgs, m \in Mains, a \in Apps }
  \cup { Tree({"next"}, None, c, m, a) : c \in NextCfgs, m \in Mains, a \in Apps }
  \cup { Tree({"react-scripts"}, None, None, m, a) : m \in Mains, a \in Apps }
  \cup { Tree({}, None, None, m, a) : m \in Mains, a \in Apps }
  \cup { [Tree({"vite"}, None, None, None, None) EXCEPT !.src = FALSE] }

PatchSlugs == { <<"s">>, <<"s", "/", "1">> }

\* The configuration files of a tree, as _detect_framework looks for them.
ConfigsOf(tree) ==
  (IF tree.cfg # None THEN {"vite.config.ts"} ELSE {})
  \cup (IF tree.nextjs # None THEN {"next.config.js"} ELSE {})
  \cup (IF tree.nextmjs # None THEN {"next.config.mjs"} ELSE {})

FrameworkOf(tree) == detect_framework([configs |-> ConfigsOf(tree), deps |-> tree.deps])

MaxRuns == 2

\* The patcher is given an extracted tree and a valid slug.
PatchInit ==
  /\ TASKS = <<>>
  /\ PENDING = <<>>
  /\ QUEUE = <<>>
  /\ DURATIONS = <<>>
  /\ wpc = "get"
  /\ cur = 0
  /\ suspended = FALSE
  /\ pipe = NoPipe
  /\ resp = NoResp
  /\ patch \in { [slug |-> s, fw |-> FrameworkOf(t), tree |-> Some(t),
                  prev |-> Some(t), runs |-> 0] : s \in PatchSlugs, t \in Trees }

\* One application of the patcher to the tree, as step 4 of the pipeline.
ApplyPatcher ==
  /\ patch.tree # None
  /\ patch.runs < MaxRuns
  /\ patch' = [patch EXCEPT !.prev = patch.tree,
                            !.tree = Some(SourcePatcher(patch.tree[1], patch.fw, patch.slug)),
                            !.runs = @ + 1]
  /\ UNCHANGED <<TASKS, PENDING, QUEUE, DURATIONS, wpc, cur, suspended, pipe, resp>>

PatchNext == ApplyPatcher

PatchSpec == PatchInit /\ [][PatchNext]_vars

\* C12: a second application of the patcher leaves the tree as the first
\* application left it.
C12_Idempotent == patch.runs = 2 => patch.tree = patch.prev

\* C12, the particular case: the entry point never carries a second
\* HashRouter wrapper around the application.
C12_SingleWrapper ==
  (patch.runs = 2 /\ patch.tree[1].main # None) =>
    \A i \in 1..Len(patch.tree[1].main[1]) :
      LET v == patch.tree[1].main[1][i].v
      IN  Cardinality({k \in 1..Len(v) : v[k] = "<HashRouter>"}) <= 1


\* C13: after one application of the patcher to a vite project, the base in
\* effect in its config and the RewriteBase of the rule file are both /<slug>/.
C13_BaseConsistent ==
  (patch.runs = 1 /\ patch.fw = "vite") =>
    LET expected == <<"/">> \o patch.slug \o <<"/">>
    IN  /\ patch.tree[1].cfg # None
        /\ BaseInEffect(patch.tree[1].cfg[1]) = expected
        /\ RewriteBase(patch.slug) = expected


\* C16: after one application of the patcher to a project classified as next,
\* the manifest carries the export script that `npm run export` invokes.
C16_ExportScriptPresent ==
  (patch.runs = 1 /\ patch.fw = "next") =>
    /\ "export" \in DOMAIN patch.tree[1].pkg.scripts
    /\ patch.tree[1].pkg.scripts["export"] = EXPORT_SCRIPT


\* ================================================================== ETA
\* Durations the history may hold, and how many it holds.
HistoryValues == {30, 120, 600}
MaxHistory == 2
MaxQueued == 3

Histories == UNION { [1..k -> HistoryValues] : k \in 0..MaxHistory }

\* A task as enqueue() creates it, and as the worker leaves it after a
\* successful run.
QueuedTask == NewTask(<<"s", "/", "1">>, CHOOSE f \in Files : f.filename = "vite.zip")
FinishedTask ==
  FreeUpload(DoneTask(set_progress(StartTask(QueuedTask), Checkpoint("return"), "Concluido"),
                      zip_dir_to_bytes("dist", QueuedTask.slug)))

\* The service after some jobs have finished (one duration each) and further
\* jobs have been submitted, before the worker takes the next one.
EtaInit ==
  \E h \in Histories, n \in 1..MaxQueued :
    /\ TASKS = [i \in 1..(Len(h) + n) |-> IF i <= Len(h) THEN FinishedTask ELSE QueuedTask]
    /\ PENDING = [i \in 1..n |-> Len(h) + i]
    /\ QUEUE = [i \in 1..n |-> Len(h) + i]
    /\ DURATIONS = h
    /\ wpc = "get"
    /\ cur = 0
    /\ suspended = TRUE
    /\ pipe = NoPipe
    /\ patch = NoPatch
    /\ resp = NoResp

EtaNext == \E id \in DOMAIN TASKS : task_status(id)

EtaSpec == EtaInit /\ [][EtaNext]_vars

\* C14: the ETA reported for a queued job is max(floor, position * mean of the
\* history), the default standing for the mean of an empty history; it is
\* never below the floor, and of two queued jobs the one further back never
\* has the smaller ETA.
C14_QueuedEta ==
  /\ (resp.op = "status" /\ resp.code = 200 /\ resp.status = "queued") =>
       LET n == Len(DURATIONS)
           num == resp.position * (IF n = 0 THEN DEFAULT_AVG ELSE Sum(DURATIONS))
           den == IF n = 0 THEN 1 ELSE n
       IN  /\ resp.eta.den > 0
           /\ resp.eta.num >= ETA_FLOOR * resp.eta.den
           /\ IF num >= ETA_FLOOR * den
              THEN resp.eta.num * den = num * resp.eta.den
              ELSE resp.eta.num = ETA_FLOOR * resp.eta.den
  /\ \A i, j \in DOMAIN TASKS :
       (/\ TASKS[i].status = "queued" /\ TASKS[j].status = "queued"
        /\ queue_position(TASKS, PENDING, i) <= queue_position(TASKS, PENDING, j)) =>
         \A el \in Elapsed :
           RatLeq(eta_for(TASKS, PENDING, DURATIONS, i, el),
                  eta_for(TASKS, PENDING, DURATIONS, j, el))

\* C14 witness: a status call for a job with two jobs ahead, over a history of
\* two different durations, answered with an ETA above the floor.
C14_Witness ==
  /\ resp.op = "status" /\ resp.code = 200 /\ resp.status = "queued"
  /\ resp.position >= 2
  /\ Len(DURATIONS) >= 2 /\ DURATIONS[1] # DURATIONS[2]
  /\ resp.eta.num > ETA_FLOOR * resp.eta.den


\* C15: whenever another task can look, a job in state done or error no longer
\* holds its upload, and a job that is still queued always holds it.
C15_PayloadFreed ==
  /\ LoopFree =>
       \A i \in DOMAIN TASKS : TASKS[i].status \in Terminal => TASKS[i].upload = None
  /\ \A i \in DOMAIN TASKS : TASKS[i].status = "queued" => TASKS[i].upload # None

\* C15 witness: the loop is free with one job done and one job failed, both
\* without their uploads.
C15_Witness ==
  /\ LoopFree
  /\ \E i, j \in DOMAIN TASKS :
       /\ TASKS[i].status = "done" /\ TASKS[i].upload = None
       /\ TASKS[j].status = "error" /\ TASKS[j].upload = None


\* C17: a status call that reports a job as done reports progress 100.
C17_DoneReportsFullProgress ==
  (resp.op = "status" /\ resp.code = 200 /\ resp.status = "done") => resp.progress = 100

====
